---- MODULE Spec2Model ----
(***************************************************************************)
(* Model of moments/ml_service.py (MLImageService, its lazy singleton and  *)
(* the object-label filter/round/dedup/sort of detect_objects) and of the  *)
(* two ALTER TABLE migration scripts.                                      *)
(*                                                                         *)
(* Confidences are floats in the code.  Here a confidence is an integer    *)
(* number of thousandths (0.911 is 911); a confidence rounded to two       *)
(* decimals is a multiple of 10 (0.91 is 910).                             *)
(***************************************************************************)
EXTENDS Integers, Sequences, FiniteSets, TLC

\* ---------------------------------------------------------------- bounds
\* longest list of objects a backend response carries
MaxLen == 3
\* calls each caller makes of get_ml_service / is_ml_available
MaxCalls == 2
\* runs of the migration scripts in succession
MaxRuns == 3

\* ------------------------------------------------------------- variables
VARIABLES
    ML_AVAILABLE,      \* module global, lines 10-18
    AZURE_AVAILABLE,   \* module global, lines 20-30
    world,             \* what the process finds around it: torch bound, credentials, ...
    instances,         \* every MLImageService object constructed so far
    _ml_service,       \* module global, line 180: NoService or an index of instances
    callerPc,          \* position of each caller inside get_ml_service
    callerFn,          \* the function each caller is running
    callerLocal,       \* the object a caller built and has not stored yet
    outcome,           \* what each caller's last finished call gave back
    constructions,     \* number of times MLImageService() was entered
    returned,          \* set of instances get_ml_service has returned
    callCount,         \* calls each caller has started
    pc,                \* position inside detect_objects / generate_alternative_text
    op,                \* the method the current call runs
    fault,             \* where the current call's error (if any) arose
    analysis,          \* the backend's response (objects, or none)
    detected_objects,  \* line 120
    unique_objects,    \* line 152 (dict, in key insertion order)
    final_objects,     \* line 158
    result,            \* what the call returned
    backendCalls,      \* backend calls made by the current call
    pass,              \* 1: ranking a backend response; 2: ranking a first pass's output
    firstOutput,       \* the first pass's output, kept for the second pass
    photo_columns,     \* the photo table's column names, in order
    rowCountAttr,      \* what `result.count` resolves to on a result row
    migPc,             \* position inside a migration script
    migScript,         \* the script that is running
    migAltered,        \* whether the current run issued ALTER TABLE
    runs               \* finished script runs, oldest first

svcVars == <<ML_AVAILABLE, AZURE_AVAILABLE, world, instances, _ml_service>>
callerVars == <<callerPc, callerFn, callerLocal, outcome, constructions, returned,
                callCount>>
detectVars == <<pc, op, fault, analysis, detected_objects, unique_objects,
                final_objects, result, backendCalls, pass, firstOutput>>
migVars == <<photo_columns, rowCountAttr, migPc, migScript, migAltered, runs>>
vars == <<svcVars, callerVars, detectVars, migVars>>

\* ------------------------------------------------------ generic helpers
\* the sequences over S of length at most n
SeqsUpTo(S, n) == UNION {[1..k -> S] : k \in 0..n}

Range(s) == {s[i] : i \in 1..Len(s)}

SetMax(S) == CHOOSE m \in S : \A x \in S : x <= m

SetMin(S) == CHOOSE m \in S : \A x \in S : m <= x

\* ------------------------------------------------- module import, lines 10-30
\* `world` is what the interpreter finds: whether the name torch got bound
\* before the first ImportError of lines 11-14, whether the Azure credentials
\* are in the environment, whether pipeline(...) and ComputerVisionClient(...)
\* construct, and whether CUDA is there.
Worlds ==
    [torch : BOOLEAN, credentials : BOOLEAN, pipeline_ok : BOOLEAN,
     client_ok : BOOLEAN, cuda : BOOLEAN]

\* lines 10-17: ML_AVAILABLE is True only when all four imports succeeded, so
\* torch is bound then; when an import failed, torch is bound only if the
\* failing import came after it (PIL).
ImportConsistent(ml, w) == ml => w.torch

NoService == 0

NoObject == "None"

\* ------------------------------------------------- MLImageService.__init__
\* line 41 reads torch.cuda: a NameError when torch was never bound
InitRaises(ml, az, w) == ~w.torch

\* lines 44-79
InitializeModels(ml, az, w) ==
    IF ~ml
    THEN [caption_pipeline |-> NoObject, azure_client |-> NoObject]
    ELSE IF ~w.pipeline_ok \/ (az /\ w.credentials /\ ~w.client_ok)
    THEN [caption_pipeline |-> NoObject, azure_client |-> NoObject]
    ELSE [caption_pipeline |-> "pipeline",
          azure_client |-> IF az /\ w.credentials THEN "client" ELSE NoObject]

\* lines 38-42: the object a successful construction yields
MLImageService(ml, az, w) ==
    LET m == InitializeModels(ml, az, w)
    IN  [caption_pipeline |-> m.caption_pipeline,
         azure_client |-> m.azure_client,
         device |-> IF w.cuda THEN "cuda" ELSE "cpu"]

\* lines 173-174
is_available(ml, self) == ml /\ self.caption_pipeline # NoObject

\* lines 176-177
is_object_detection_available(az, self) == az /\ self.azure_client # NoObject

\* ------------------------------------------- detect_objects: pure helpers
Threshold == 500

\* dict keys are compared as strings: "cat" and "Cat" are two names
Names == {"cat", "Cat"}

\* 0.125-multiples are exact binary fractions, so 0.625 is a true tie for
\* round(); the other values are not ties.
ConfValues == {300, 500, 501, 520, 625, 911, 914}

\* The shapes of response objects the attribute probing of lines 133-142 tells
\* apart: which attribute carries the name, and whether `confidence` is a
\* number, is missing, or is not a number.
Objects ==
    [attr : {"object"}, name : Names, confType : {"float"}, confidence : ConfValues]
    \cup {[attr |-> "object_property", name |-> "dog", confType |-> "float", confidence |-> 914],
          [attr |-> "label", name |-> "cat", confType |-> "float", confidence |-> 501],
          [attr |-> "object", name |-> "cat", confType |-> "missing", confidence |-> 0],
          [attr |-> "object", name |-> "dog", confType |-> "str", confidence |-> 0]}

HasConfidence(obj) == obj.confType # "missing"

\* lines 133-141
ObjectName(obj) ==
    IF obj.attr \in {"object", "object_property"} /\ HasConfidence(obj) THEN obj.name
    ELSE IF obj.attr \in {"name", "label"} THEN obj.name
    ELSE "unknown"

\* lines 135, 138, 142
ObjectConfidence(obj) == IF HasConfidence(obj) THEN obj.confidence ELSE 0

\* round(confidence, 2): to the nearest hundredth, an exact tie to the even one
Round2(c) ==
    LET q == c \div 10
        r == c % 10
    IN  IF r < 5 THEN q * 10
        ELSE IF r > 5 THEN (q + 1) * 10
        ELSE IF q % 2 = 0 THEN q * 10 ELSE (q + 1) * 10

\* line 145
KeepObjectNonStrict(confidence) == confidence >= Threshold

KeepObject(confidence) == confidence > Threshold

\* line 145 on a confidence that is not a number: TypeError
ExtractRaises(objs) == \E i \in 1..Len(objs) : objs[i].confType = "str"

\* lines 131-149.  `id` is the identity of the dict appended at line 146: the
\* position of the detection it was built from.
RECURSIVE ExtractFrom(_, _)
ExtractFrom(objs, i) ==
    IF i > Len(objs) THEN <<>>
    ELSE LET c == ObjectConfidence(objs[i])
             rest == ExtractFrom(objs, i + 1)
         IN  IF KeepObject(c)
             THEN <<[name |-> ObjectName(objs[i]), confidence |-> Round2(c), id |-> i]>> \o rest
             ELSE rest

ExtractObjects(objs) == ExtractFrom(objs, 1)

\* line 154
DedupKeyById(obj) == obj.id

DedupKey(obj) == obj.name

\* line 155, second disjunct
DedupReplacesOnTie(new, old) == new.confidence >= old.confidence

DedupReplaces(new, old) == new.confidence > old.confidence

\* lines 155-156: one iteration; the dict keeps a key's first position
DedupStep(u, obj) ==
    IF \E k \in 1..Len(u) : DedupKey(u[k]) = DedupKey(obj)
    THEN [k \in 1..Len(u) |->
            IF DedupKey(u[k]) = DedupKey(obj) /\ DedupReplaces(obj, u[k])
            THEN obj ELSE u[k]]
    ELSE Append(u, obj)

\* lines 152-156
RECURSIVE DedupFrom(_, _, _)
DedupFrom(u, d, i) ==
    IF i > Len(d) THEN u ELSE DedupFrom(DedupStep(u, d[i]), d, i + 1)

Dedup(d) == DedupFrom(<<>>, d, 1)

\* line 159: key=confidence, reverse=True
SortsBeforeAscending(a, b) == a.confidence < b.confidence

SortsBefore(a, b) == a.confidence > b.confidence

\* list.sort is stable, also under reverse=True: x goes behind every element
\* it does not sort strictly before
InsertSorted(s, x) ==
    LET k == Cardinality({i \in 1..Len(s) : ~SortsBefore(x, s[i])})
    IN  SubSeq(s, 1, k) \o <<x>> \o SubSeq(s, k + 1, Len(s))

RECURSIVE SortFrom(_, _, _)
SortFrom(acc, s, i) ==
    IF i > Len(s) THEN acc ELSE SortFrom(InsertSorted(acc, s[i]), s, i + 1)

\* lines 158-159
SortDesc(u) == SortFrom(<<>>, u, 1)

\* the "no result" value: None
NoResult == [kind |-> "none"]

\* line 162: json.dumps of the list of {"name", "confidence"} dicts
JsonDumps(final) ==
    [kind |-> "str",
     array |-> [i \in 1..Len(final) |-> <<final[i].name, final[i].confidence>>]]

\* lines 161-167
ReturnValueAlwaysDumps(final) == JsonDumps(final)

ReturnValue(final) == IF final # <<>> THEN JsonDumps(final) ELSE NoResult

\* lines 169-171 and 98-100: log, return None
OnExceptionPropagate == [kind |-> "raise"]

OnException == NoResult

\* json.loads of a returned string, as objects carrying `object`/`confidence`
Decoded(array) ==
    [i \in 1..Len(array) |->
        [attr |-> "object", name |-> array[i][1], confType |-> "float",
         confidence |-> array[i][2]]]

\* line 93: result[0]["generated_text"].strip()
RECURSIVE Strip(_)
Strip(text) ==
    IF text = <<>> THEN text
    ELSE IF Head(text) = " " THEN Strip(Tail(text))
    ELSE IF text[Len(text)] = " " THEN Strip(SubSeq(text, 1, Len(text) - 1))
    ELSE text

Captions == {<<"a", " ", "cat">>, <<" ", "a", " ", "cat", " ">>}

\* what the captioning pipeline hands back: an error, an empty list, a caption
PipelineOutputs ==
    {[raises |-> TRUE, texts |-> <<>>], [raises |-> FALSE, texts |-> <<>>]}
    \cup {[raises |-> FALSE, texts |-> <<c>>] : c \in Captions}

\* what the backend answers for a readable image: an error, a response
\* without objects, or a response with a list of objects
Responses ==
    {[raises |-> TRUE, hasObjects |-> FALSE, objects |-> <<>>],
     [raises |-> FALSE, hasObjects |-> FALSE, objects |-> <<>>]}
    \cup [raises : {FALSE}, hasObjects : {TRUE}, objects : SeqsUpTo(Objects, MaxLen)]

NoAnalysis == [hasObjects |-> FALSE, objects |-> <<>>]

\* ------------------------------------------------------- initial values
Callers == {1, 2}

CallersIdle ==
    /\ callerPc = [c \in Callers |-> "idle"]
    /\ callerFn = [c \in Callers |-> "none"]
    /\ callerLocal = [c \in Callers |-> NoService]
    /\ outcome = [c \in Callers |-> [kind |-> "pending"]]
    /\ constructions = 0
    /\ returned = {}
    /\ callCount = [c \in Callers |-> 0]

DetectIdle ==
    /\ pc = "idle"
    /\ op = "none"
    /\ fault = "none"
    /\ analysis = NoAnalysis
    /\ detected_objects = <<>>
    /\ unique_objects = <<>>
    /\ final_objects = <<>>
    /\ result = [kind |-> "pending"]
    /\ backendCalls = 0
    /\ pass = 1
    /\ firstOutput = <<>>

\* the photo table before either migration: columns of the Photo model
BaseColumns == <<"filename", "filename_s", "filename_m">>

MigrationIdle ==
    /\ migPc = "idle"
    /\ migScript = "none"
    /\ migAltered = FALSE
    /\ runs = <<>>

\* ---------------------------------- detect_objects, lines 102-171, by steps
ResetCall(method) ==
    /\ op' = method
    /\ detected_objects' = <<>>
    /\ unique_objects' = <<>>
    /\ final_objects' = <<>>
    /\ pass' = 1
    /\ firstOutput' = <<>>

\* lines 107-118: the availability guard, open(), the one backend call
DetectObjects_Call(self) ==
    /\ pc = "idle"
    /\ ResetCall("detect_objects")
    /\ IF ~is_object_detection_available(AZURE_AVAILABLE, instances[self])
       THEN /\ result' = NoResult
            /\ fault' = "unavailable"
            /\ backendCalls' = 0
            /\ analysis' = NoAnalysis
            /\ pc' = "done"
       ELSE \/ \* open() raises
               /\ result' = OnException
               /\ fault' = "open"
               /\ backendCalls' = 0
               /\ analysis' = NoAnalysis
               /\ pc' = "done"
            \/ \E response \in Responses :
                 /\ backendCalls' = 1
                 /\ IF response.raises
                    THEN /\ result' = OnException
                         /\ fault' = "backend"
                         /\ analysis' = NoAnalysis
                         /\ pc' = "done"
                    ELSE /\ result' = [kind |-> "pending"]
                         /\ fault' = "none"
                         /\ analysis' = [hasObjects |-> response.hasObjects,
                                         objects |-> response.objects]
                         /\ pc' = "extract"
    /\ UNCHANGED <<svcVars, callerVars, migVars>>

\* lines 120-149
DetectObjects_Extract ==
    /\ pc = "extract"
    /\ IF analysis.hasObjects /\ analysis.objects # <<>> /\ ExtractRaises(analysis.objects)
       THEN /\ result' = OnException
            /\ fault' = "response"
            /\ pc' = "done"
            /\ UNCHANGED detected_objects
       ELSE /\ detected_objects' =
                  IF analysis.hasObjects /\ analysis.objects # <<>>
                  THEN ExtractObjects(analysis.objects) ELSE <<>>
            /\ pc' = "dedup"
            /\ UNCHANGED <<result, fault>>
    /\ UNCHANGED <<op, analysis, unique_objects, final_objects, backendCalls, pass,
                   firstOutput, svcVars, callerVars, migVars>>

\* lines 151-156
DetectObjects_Dedup ==
    /\ pc = "dedup"
    /\ unique_objects' = Dedup(detected_objects)
    /\ pc' = "sort"
    /\ UNCHANGED <<op, fault, analysis, detected_objects, final_objects, result,
                   backendCalls, pass, firstOutput, svcVars, callerVars, migVars>>

\* lines 158-159
DetectObjects_Sort ==
    /\ pc = "sort"
    /\ final_objects' = SortDesc(unique_objects)
    /\ pc' = "return"
    /\ UNCHANGED <<op, fault, analysis, detected_objects, unique_objects, result,
                   backendCalls, pass, firstOutput, svcVars, callerVars, migVars>>

\* lines 161-167
DetectObjects_Return ==
    /\ pc = "return"
    /\ result' = ReturnValue(final_objects)
    /\ pc' = "done"
    /\ UNCHANGED <<op, fault, analysis, detected_objects, unique_objects, final_objects,
                   backendCalls, pass, firstOutput, svcVars, callerVars, migVars>>

\* The returned list is put through lines 120-167 once more, as the response
\* of a second analysis.
Rerank ==
    /\ pc = "done"
    /\ op = "detect_objects"
    /\ pass = 1
    /\ result.kind = "str"
    /\ firstOutput' = result.array
    /\ analysis' = [hasObjects |-> TRUE, objects |-> Decoded(result.array)]
    /\ pass' = 2
    /\ pc' = "extract"
    /\ result' = [kind |-> "pending"]
    /\ detected_objects' = <<>>
    /\ unique_objects' = <<>>
    /\ final_objects' = <<>>
    /\ UNCHANGED <<op, fault, backendCalls, svcVars, callerVars, migVars>>

\* lines 81-100
GenerateAlternativeText(self, readable, out) ==
    /\ pc = "idle"
    /\ ResetCall("generate_alternative_text")
    /\ analysis' = NoAnalysis
    /\ pc' = "done"
    /\ IF ~is_available(ML_AVAILABLE, instances[self])
       THEN /\ result' = NoResult
            /\ fault' = "unavailable"
            /\ backendCalls' = 0
       ELSE IF ~readable
       THEN /\ result' = OnException
            /\ fault' = "open"
            /\ backendCalls' = 0
       ELSE IF out.raises
       THEN /\ result' = OnException
            /\ fault' = "backend"
            /\ backendCalls' = 1
       ELSE /\ result' = IF out.texts # <<>>
                         THEN [kind |-> "str", text |-> Strip(out.texts[1])]
                         ELSE NoResult
            /\ fault' = "none"
            /\ backendCalls' = 1
    /\ UNCHANGED <<svcVars, callerVars, migVars>>

\* the caller has the returned value; the service takes the next call
CallReturns ==
    /\ pc = "done"
    /\ pc' = "idle"
    /\ op' = "none"
    /\ fault' = "none"
    /\ analysis' = NoAnalysis
    /\ detected_objects' = <<>>
    /\ unique_objects' = <<>>
    /\ final_objects' = <<>>
    /\ result' = [kind |-> "pending"]
    /\ backendCalls' = 0
    /\ pass' = 1
    /\ firstOutput' = <<>>
    /\ UNCHANGED <<svcVars, callerVars, migVars>>

\* a process that holds a constructed service (get_ml_service has returned)
DetectInit ==
    /\ ML_AVAILABLE \in BOOLEAN
    /\ AZURE_AVAILABLE \in BOOLEAN
    /\ world \in Worlds
    /\ ImportConsistent(ML_AVAILABLE, world)
    /\ ~InitRaises(ML_AVAILABLE, AZURE_AVAILABLE, world)
    /\ instances = <<MLImageService(ML_AVAILABLE, AZURE_AVAILABLE, world)>>
    /\ _ml_service = 1
    /\ CallersIdle
    /\ DetectIdle
    /\ photo_columns = BaseColumns
    /\ rowCountAttr = "column"
    /\ MigrationIdle

DetectNext ==
    \/ DetectObjects_Call(_ml_service)
    \/ DetectObjects_Extract
    \/ DetectObjects_Dedup
    \/ DetectObjects_Sort
    \/ DetectObjects_Return
    \/ Rerank
    \/ CallReturns
    \/ \E readable \in BOOLEAN, out \in PipelineOutputs :
          GenerateAlternativeText(_ml_service, readable, out)

SpecDetect == DetectInit /\ [][DetectNext]_vars

\* ------------------------------------------------ claims on detect_objects
\* the detections the ranking step was given
Input == IF analysis.hasObjects THEN analysis.objects ELSE <<>>

\* the array the returned string encodes (empty when None was returned)
Output == IF result.kind = "str" /\ op = "detect_objects" THEN result.array ELSE <<>>

\* a detect_objects call that ran to line 164 or 167
Finished == pc = "done" /\ op = "detect_objects" /\ fault = "none"

Above(i) == Input[i].confType # "str" /\ ObjectConfidence(Input[i]) > Threshold

NamedAbove(name) == {i \in 1..Len(Input) : Above(i) /\ ObjectName(Input[i]) = name}

\* C1 as claimed: a second pass over a first pass's output returns the same
\* entries (same set of {name, confidence}, hence the same sequence up to the
\* order of ties).
C1_SecondPassSame ==
    (pass = 2 /\ pc = "done") =>
        /\ Len(Output) = Len(firstOutput)
        /\ Range(Output) = Range(firstOutput)

\* C1 amended: a second pass returns the first pass's output without its
\* entries of rounded confidence 0.50, the others unchanged and in the same
\* order.
C1_SecondPassDropsHalf ==
    (pass = 2 /\ pc = "done") =>
        Output = SelectSeq(firstOutput, LAMBDA e : e[2] > Threshold)

C1_Witness ==
    /\ pass = 2
    /\ pc = "done"
    /\ Len(firstOutput) = 2
    /\ Len(Output) = 1

\* C4: a call in which open(), the backend or the processing of the response
\* raised returns None, raises nothing, called the backend at most once, and
\* no step of any call changes the service objects or the singleton handle.
C4_FailureIsNone ==
    /\ [](/\ result.kind # "raise"
          /\ backendCalls <= 1
          /\ (pc = "done" /\ fault \in {"open", "backend", "response"})
                => result = NoResult)
    /\ [][instances' = instances /\ _ml_service' = _ml_service
          /\ ML_AVAILABLE' = ML_AVAILABLE /\ AZURE_AVAILABLE' = AZURE_AVAILABLE]_vars

C4_Witness ==
    /\ pc = "done"
    /\ op = "detect_objects"
    /\ fault = "response"
    /\ backendCalls = 1
    /\ result = NoResult

\* C5: a response with no objects, or with no confidence above 0.5, gives
\* None; a returned string never encodes an empty array.
C5_EmptyIsNone ==
    (pc = "done" /\ op = "detect_objects") =>
        /\ result.kind \in {"none", "str"}
        /\ (\A i \in 1..Len(Input) : ~Above(i)) => result = NoResult
        /\ result.kind = "str" => result.array # <<>>

C5_Witness ==
    /\ Finished
    /\ Len(Input) >= 2
    /\ \E i \in 1..Len(Input) : ObjectConfidence(Input[i]) = Threshold
    /\ \A i \in 1..Len(Input) : ~Above(i)
    /\ result = NoResult

\* C6: every output entry is built from a detection of that name whose
\* unrounded confidence is > 0.5, and every name with such a detection is in
\* the output.
C6_ThresholdFilter ==
    Finished =>
        /\ \A k \in 1..Len(final_objects) :
              /\ Above(final_objects[k].id)
              /\ ObjectName(Input[final_objects[k].id]) = final_objects[k].name
        /\ \A k \in 1..Len(Output) : NamedAbove(Output[k][1]) # {}
        /\ \A i \in 1..Len(Input) :
              Above(i) => \E k \in 1..Len(Output) : Output[k][1] = ObjectName(Input[i])

C6_Witness ==
    /\ Finished
    /\ \E i, j \in 1..Len(Input) :
          /\ ObjectConfidence(Input[i]) = Threshold
          /\ ObjectConfidence(Input[j]) = Threshold + 1
          /\ ObjectName(Input[i]) # ObjectName(Input[j])
    /\ Len(Output) = 1

C8_UniqueNames ==
    /\ \A j, k \in 1..Len(unique_objects) :
          unique_objects[j].name = unique_objects[k].name => j = k
    /\ \A j, k \in 1..Len(final_objects) :
          final_objects[j].name = final_objects[k].name => j = k
    /\ \A j, k \in 1..Len(Output) : Output[j][1] = Output[k][1] => j = k

C8_Witness ==
    /\ Finished
    /\ Len(Input) = 3
    /\ ObjectName(Input[1]) = ObjectName(Input[3])
    /\ ObjectName(Input[1]) # ObjectName(Input[2])
    /\ \A i \in 1..3 : Above(i)
    /\ Len(Output) = 2

\* C9: the output's confidences are non-increasing, and the sorted list is a
\* permutation of the deduplicated entries.
C9_SortedPermutation ==
    Finished =>
        /\ \A k \in 1..(Len(Output) - 1) : Output[k][2] >= Output[k + 1][2]
        /\ Len(final_objects) = Len(unique_objects)
        /\ Range(final_objects) = Range(unique_objects)
        /\ Len(Output) = Len(final_objects)

C9_Witness ==
    /\ Finished
    /\ Len(Output) = 2
    /\ final_objects # unique_objects
    /\ Output[1][2] > Output[2][2]

\* ------------------------------- get_ml_service / is_ml_available, by steps
\* a caller enters get_ml_service (line 183) or is_ml_available (line 190)
Begin(c, fn) ==
    /\ callerPc[c] = "idle"
    /\ callCount[c] < MaxCalls
    /\ callerPc' = [callerPc EXCEPT ![c] = "check"]
    /\ callerFn' = [callerFn EXCEPT ![c] = fn]
    /\ callCount' = [callCount EXCEPT ![c] = @ + 1]
    /\ outcome' = [outcome EXCEPT ![c] = [kind |-> "pending"]]
    /\ UNCHANGED <<callerLocal, constructions, returned, svcVars, detectVars, migVars>>

\* line 185: if _ml_service is None
Check(c) ==
    /\ callerPc[c] = "check"
    /\ callerPc' = [callerPc EXCEPT ![c] =
                       IF _ml_service = NoService THEN "construct" ELSE "return"]
    /\ UNCHANGED <<callerFn, callerLocal, outcome, constructions, returned, callCount,
                   svcVars, detectVars, migVars>>

\* line 186, right-hand side: MLImageService() runs __init__ (lines 38-42)
Construct(c) ==
    /\ callerPc[c] = "construct"
    /\ constructions' = constructions + 1
    /\ IF InitRaises(ML_AVAILABLE, AZURE_AVAILABLE, world)
       THEN /\ outcome' = [outcome EXCEPT ![c] = [kind |-> "raise"]]
            /\ callerPc' = [callerPc EXCEPT ![c] = "idle"]
            /\ UNCHANGED <<instances, callerLocal>>
       ELSE /\ instances' =
                  Append(instances, MLImageService(ML_AVAILABLE, AZURE_AVAILABLE, world))
            /\ callerLocal' = [callerLocal EXCEPT ![c] = Len(instances) + 1]
            /\ callerPc' = [callerPc EXCEPT ![c] = "store"]
            /\ UNCHANGED outcome
    /\ UNCHANGED <<callerFn, returned, callCount, ML_AVAILABLE, AZURE_AVAILABLE, world,
                   _ml_service, detectVars, migVars>>

\* line 186, the assignment to the global
Store(c) ==
    /\ callerPc[c] = "store"
    /\ _ml_service' = callerLocal[c]
    /\ callerLocal' = [callerLocal EXCEPT ![c] = NoService]
    /\ callerPc' = [callerPc EXCEPT ![c] = "return"]
    /\ UNCHANGED <<callerFn, outcome, constructions, returned, callCount, ML_AVAILABLE,
                   AZURE_AVAILABLE, world, instances, detectVars, migVars>>

\* line 187 reads the global again and returns it; lines 191-192 then ask the
\* returned service is_available()
Return(c) ==
    /\ callerPc[c] = "return"
    /\ outcome' = [outcome EXCEPT ![c] =
                      IF callerFn[c] = "get_ml_service"
                      THEN [kind |-> "service", id |-> _ml_service]
                      ELSE [kind |-> "bool", id |-> _ml_service,
                            value |-> is_available(ML_AVAILABLE, instances[_ml_service])]]
    /\ returned' = returned \cup {_ml_service}
    /\ callerPc' = [callerPc EXCEPT ![c] = "idle"]
    /\ UNCHANGED <<callerFn, callerLocal, constructions, callCount, svcVars, detectVars,
                   migVars>>

\* a freshly imported module: no service yet (line 180)
ServiceInit ==
    /\ ML_AVAILABLE \in BOOLEAN
    /\ AZURE_AVAILABLE \in BOOLEAN
    /\ world \in Worlds
    /\ ImportConsistent(ML_AVAILABLE, world)
    /\ instances = <<>>
    /\ _ml_service = NoService
    /\ CallersIdle
    /\ DetectIdle
    /\ photo_columns = BaseColumns
    /\ rowCountAttr = "column"
    /\ MigrationIdle

ServiceNext ==
    \E c \in Callers :
        \/ \E fn \in {"get_ml_service", "is_ml_available"} : Begin(c, fn)
        \/ Check(c)
        \/ Construct(c)
        \/ Store(c)
        \/ Return(c)

SpecService == ServiceInit /\ [][ServiceNext]_vars

\* the captioning backend could not be set up: lines 46-48 and 76-79
CaptionUnavailable ==
    \/ ~ML_AVAILABLE
    \/ ~world.pipeline_ok
    \/ (AZURE_AVAILABLE /\ world.credentials /\ ~world.client_ok)

\* the detection backend could not be set up: also lines 62-72
DetectionUnavailable ==
    \/ CaptionUnavailable
    \/ ~AZURE_AVAILABLE
    \/ ~world.credentials

\* C2: no call of get_ml_service / is_ml_available raises; with the captioning
\* backend unavailable is_ml_available() and is_available() give False, with
\* the detection backend unavailable is_object_detection_available() gives
\* False.
C2_UnavailableIsAFlag ==
    \A c \in Callers :
        /\ outcome[c].kind # "raise"
        /\ outcome[c].kind = "bool" => (CaptionUnavailable => ~outcome[c].value)
        /\ outcome[c].kind \in {"service", "bool"} =>
              /\ CaptionUnavailable =>
                    ~is_available(ML_AVAILABLE, instances[outcome[c].id])
              /\ DetectionUnavailable =>
                    ~is_object_detection_available(AZURE_AVAILABLE, instances[outcome[c].id])

\* C3: at most one MLImageService object is ever constructed, and every call
\* that returns gives the same object.
C3_ConstructedOnce ==
    /\ Len(instances) <= 1
    /\ Cardinality(returned) <= 1

\* --------------------------------------------------- the migration scripts
Scripts == {"migrate_alt_text", "migrate_detected_objects"}

\* the column each script adds: migrate_alt_text.py line 36,
\* migrate_detected_objects.py lines 46-47
TargetColumn(script) ==
    IF script = "migrate_alt_text" THEN "alt_text" ELSE "detected_objects"

ColumnCount(columns, name) == Cardinality({i \in 1..Len(columns) : columns[i] = name})

FinishRun(how) ==
    /\ runs' = Append(runs, [script |-> migScript, outcome |-> how,
                             altered |-> migAltered,
                             \* whether the run found its column in the table
                             present |-> ~migAltered /\
                                 ColumnCount(photo_columns, TargetColumn(migScript)) > 0])
    /\ migPc' = "idle"
    /\ migScript' = "none"
    /\ migAltered' = FALSE

\* python migrate_alt_text.py / python migrate_detected_objects.py
MigrateStart(script) ==
    /\ migPc = "idle"
    /\ Len(runs) < MaxRuns
    /\ migPc' = "check"
    /\ migScript' = script
    /\ migAltered' = FALSE
    /\ UNCHANGED <<photo_columns, rowCountAttr, runs, svcVars, callerVars, detectVars>>

\* migrate_alt_text.py lines 26-31: the column-existence check
MigrateAltText_Check ==
    /\ migPc = "check"
    /\ migScript = "migrate_alt_text"
    /\ IF ColumnCount(photo_columns, "alt_text") > 0
       THEN FinishRun("exists")
       ELSE /\ migPc' = "alter"
            /\ UNCHANGED <<migScript, migAltered, runs>>
    /\ UNCHANGED <<photo_columns, rowCountAttr, svcVars, callerVars, detectVars>>

\* migrate_detected_objects.py lines 34-42 and 53-56: `result.count > 0` on
\* the fetched row.  Where `count` names the row's sequence method and not the
\* column aliased `count`, the comparison raises TypeError; the handler rolls
\* back and re-raises.
MigrateDetectedObjects_Check ==
    /\ migPc = "check"
    /\ migScript = "migrate_detected_objects"
    /\ IF rowCountAttr = "method"
       THEN FinishRun("raised")
       ELSE IF ColumnCount(photo_columns, "detected_objects") > 0
       THEN FinishRun("exists")
       ELSE /\ migPc' = "alter"
            /\ UNCHANGED <<migScript, migAltered, runs>>
    /\ UNCHANGED <<photo_columns, rowCountAttr, svcVars, callerVars, detectVars>>

\* migrate_alt_text.py line 36, migrate_detected_objects.py lines 45-48:
\* ALTER TABLE photo ADD COLUMN; SQLite refuses a duplicate column name, and
\* the handlers turn that into exit status 1 (lines 42-44) or a re-raise
MigrateAlter ==
    /\ migPc = "alter"
    /\ IF ColumnCount(photo_columns, TargetColumn(migScript)) > 0
       THEN /\ FinishRun(IF migScript = "migrate_alt_text" THEN "exit1" ELSE "raised")
            /\ UNCHANGED photo_columns
       ELSE /\ photo_columns' = Append(photo_columns, TargetColumn(migScript))
            /\ migAltered' = TRUE
            /\ migPc' = "commit"
            /\ UNCHANGED <<migScript, runs>>
    /\ UNCHANGED <<rowCountAttr, svcVars, callerVars, detectVars>>

\* migrate_alt_text.py lines 37-40, migrate_detected_objects.py lines 50-51
MigrateCommit ==
    /\ migPc = "commit"
    /\ FinishRun("added")
    /\ UNCHANGED <<photo_columns, rowCountAttr, svcVars, callerVars, detectVars>>

\* a photo table with or without either column; a result row on which
\* `.count` is the column, or the row's own method
MigrationInit ==
    /\ photo_columns \in {BaseColumns \o extra :
            extra \in {<<>>, <<"alt_text">>, <<"detected_objects">>,
                       <<"alt_text", "detected_objects">>}}
    /\ rowCountAttr \in {"column", "method"}
    /\ MigrationIdle
    /\ ML_AVAILABLE = FALSE
    /\ AZURE_AVAILABLE = FALSE
    /\ world = [torch |-> FALSE, credentials |-> FALSE, pipeline_ok |-> FALSE,
                client_ok |-> FALSE, cuda |-> FALSE]
    /\ instances = <<>>
    /\ _ml_service = NoService
    /\ CallersIdle
    /\ DetectIdle

MigrationNext ==
    \/ \E script \in Scripts : MigrateStart(script)
    \/ MigrateAltText_Check
    \/ MigrateDetectedObjects_Check
    \/ MigrateAlter
    \/ MigrateCommit

SpecMigration == MigrationInit /\ [][MigrationNext]_vars

====
